---- MODULE Spec2Model ----
(***************************************************************************)
(* Model of cpol_processing/processing/phase.py and attenuation.py.        *)
(*                                                                         *)
(* A sweep grid is a sequence of rays, each ray a sequence of gates.       *)
(* KDP, raw phase and ZDR samples are integers (ZDR in thousandths of a    *)
(* dB, so that the 0.016 coefficient is the integer 16).  PHIDP samples    *)
(* handled by fix_phidp_from_kdp are rationals <<num, den>>, den > 0,      *)
(* because the function divides the trapezoidal integral by 2 and by       *)
(* len(r).                                                                 *)
(***************************************************************************)
EXTENDS Integers, Sequences, FiniteSets, TLC

VARIABLES
    pc,            \* position of the running function: "idle", "gg_lp", "gg_halve", "gg_fix", "done", "raised"
    fn,            \* function that was called: "none", "giangrande", "bringi", "valentin"
    err,           \* exception that left the function, "none" when there is none
    radar,         \* radar.fields: PHIDP, PHI_UNF, ZDR_CORR, PHIDP_VAL (data grids)
    gate_excluded, \* gatefilter.gate_excluded, TRUE = excluded
    r,             \* radar.range['data']
    half_phi,      \* local half_phi of phidp_giangrande
    unfphi_in,     \* unfphidict['data'] as returned by dealias_region_based
    phidp_tmp,     \* field PHIDP_TMP handed to phase_proc_lp
    dp,            \* local dp of phidp_bringi after the offset step
    phidp,         \* PHIDP grid of the caller of fix_phidp_from_kdp (phidp_gg['data'])
    kdp,           \* KDP grid of the caller of fix_phidp_from_kdp (kdp_gg['data'])
    phidp_in,      \* the caller's PHIDP grid right before the last call of fix_phidp_from_kdp
    kdp_in,        \* the caller's KDP grid right before the last call of fix_phidp_from_kdp
    fix_calls,     \* number of calls of fix_phidp_from_kdp made so far
    zdr_calls      \* calls of correct_attenuation_zdr: <<[alpha, data], ...>>

vars == <<pc, fn, err, radar, gate_excluded, r, half_phi, unfphi_in, phidp_tmp, dp,
          phidp, kdp, phidp_in, kdp_in, fix_calls, zdr_calls>>

-----------------------------------------------------------------------------
(* Bounds of the model *)

NRays == 2

NGates == 3

MaxFixCalls == 2

MaxZdrCalls == 2

(* Constants of the program *)

KdpMin == -4

KdpMax == 15

OffsetShift == 90

HalfSpan == 200

HardAlpha == 16

Rays == 1..NRays

Gates == 1..NGates

-----------------------------------------------------------------------------
(* Input sweeps.  Rows are windows of fixed cycles so that the number of   *)
(* initial states stays small when the grid grows.                         *)

KdpCycle == <<-5, -4, 3, 15, 16, 0>>

KdpRow(s, n) == [g \in 1..n |-> KdpCycle[((s + g - 1) % Len(KdpCycle)) + 1]]

KdpStarts == 0..(Len(KdpCycle) - 1)

MaskPats == {"none", "all", "odd", "last"}

MaskRow(p, n) ==
    [g \in 1..n |-> CASE p = "none" -> FALSE
                      [] p = "all"  -> TRUE
                      [] p = "odd"  -> (g % 2 = 1)
                      [] OTHER      -> (g = n)]

PhiScales == {0, 3}

PhidpGrid(b) == [ray \in Rays |-> [g \in Gates |-> <<b * (ray + g), 1>>]]

RangeKinds == {"uniform", "stretched", "long", "short", "widemask"}

RangeVec(kind) ==
    CASE kind = "stretched" -> [g \in 1..NGates |-> (g * (g - 1)) \div 2]
      [] kind = "long"      -> [g \in 1..(NGates + 1) |-> 2 * (g - 1)]
      [] kind = "short"     -> [g \in 1..(NGates - 1) |-> 2 * (g - 1)]
      [] OTHER              -> [g \in 1..NGates |-> 2 * (g - 1)]

MaskGates(kind) == IF kind = "widemask" THEN NGates + 1 ELSE NGates

NoGrid == <<>>

NoRadar == [PHIDP |-> NoGrid, PHI_UNF |-> NoGrid, ZDR_CORR |-> NoGrid, PHIDP_VAL |-> NoGrid]

-----------------------------------------------------------------------------
(* numpy / scipy primitives *)

NumGates(grid) == Len(grid[1])

SameShape(a, b) ==
    /\ Len(a) = Len(b)
    /\ \A i \in 1..Len(a) : Len(a[i]) = Len(b[i])

\* np.cumsum of a sequence
CumSum(s) ==
    LET cs[j \in 0..Len(s)] == IF j = 0 THEN 0 ELSE cs[j - 1] + s[j]
    IN  [j \in 1..Len(s) |-> cs[j]]

\* Variant: right-rectangle rule instead of the trapezoidal rule
CumtrapzRect(y, x) ==
    LET n  == Len(y) - 1
        s  == [i \in 1..n |-> (x[i + 1] - x[i]) * (2 * y[i + 1])]
        cs == CumSum(s)
    IN  [j \in 1..n |-> <<cs[j], 2>>]

\* integrate.cumtrapz(y, x) of one row: cumsum(diff(x) * (y[1:] + y[:-1]) / 2),
\* as rationals over 2
Cumtrapz(y, x) ==
    LET n  == Len(y) - 1
        s  == [i \in 1..n |-> (x[i + 1] - x[i]) * (y[i + 1] + y[i])]
        cs == CumSum(s)
    IN  [j \in 1..n |-> <<cs[j], 2>>]

RatDiv(q, k) == <<q[1], q[2] * k>>

RatEq(p, q) == p[1] * q[2] = q[1] * p[2]

-----------------------------------------------------------------------------
(* fix_phidp_from_kdp *)

\* Variant: the upper bound itself is rejected (kdp >= 15)
ClampGateStrict(k, excluded) ==
    LET k1 == IF excluded THEN 0 ELSE k
        k2 == IF k1 < KdpMin THEN 0 ELSE k1
    IN  IF k2 >= KdpMax THEN 0 ELSE k2

\* One gate of: kdp[gate_excluded] = 0; kdp[kdp < -4] = 0; kdp[kdp > 15] = 0
ClampGate(k, excluded) ==
    LET k1 == IF excluded THEN 0 ELSE k
        k2 == IF k1 < KdpMin THEN 0 ELSE k1
    IN  IF k2 > KdpMax THEN 0 ELSE k2

ClampKdp(kd, excl) ==
    [i \in 1..Len(kd) |-> [g \in 1..Len(kd[i]) |-> ClampGate(kd[i][g], excl[i][g])]]

\* Variant: the integral is accumulated onto the previous phase (+=)
ReconcileRowAccum(phrow, kdrow, rng) ==
    LET interg == Cumtrapz(kdrow, rng)
        add(p, q) == <<p[1] * q[2] + q[1] * p[2], p[2] * q[2]>>
    IN  [g \in 1..Len(phrow) |->
            IF g < Len(phrow) THEN add(phrow[g], RatDiv(interg[g], Len(rng))) ELSE phrow[g]]

\* phidp[:, :-1] = interg / len(r), one row
ReconcileRow(phrow, kdrow, rng) ==
    LET interg == Cumtrapz(kdrow, rng)
    IN  [g \in 1..Len(phrow) |->
            IF g < Len(phrow) THEN RatDiv(interg[g], Len(rng)) ELSE phrow[g]]

\* The whole call.  The grids are modified in place, so what the caller holds
\* after an exception is what had been assigned before it.
FixPhidpFromKdp(ph, kd, rng, excl) ==
    IF ~SameShape(excl, kd)
    THEN [err |-> "IndexError", phidp |-> ph, kdp |-> kd]
    ELSE LET kc == ClampKdp(kd, excl)
         IN  IF Len(rng) # NumGates(kd)
             THEN [err |-> "ValueError", phidp |-> ph, kdp |-> kc]
             ELSE [err   |-> "none",
                   phidp |-> [i \in 1..Len(ph) |-> ReconcileRow(ph[i], kc[i], rng)],
                   kdp   |-> kc]

InitFix ==
    \E ks \in [Rays -> KdpStarts], ms \in [Rays -> MaskPats],
       b \in PhiScales, kind \in RangeKinds :
        /\ kdp = [ray \in Rays |-> KdpRow(ks[ray], NGates)]
        /\ gate_excluded = [ray \in Rays |-> MaskRow(ms[ray], MaskGates(kind))]
        /\ phidp = PhidpGrid(b)
        /\ r = RangeVec(kind)
        /\ phidp_in = phidp
        /\ kdp_in = kdp
        /\ fix_calls = 0
        /\ pc = "idle"
        /\ fn = "none"
        /\ err = "none"
        /\ radar = NoRadar
        /\ half_phi = FALSE
        /\ unfphi_in = NoGrid
        /\ phidp_tmp = NoGrid
        /\ dp = NoGrid
        /\ zdr_calls = <<>>

\* A caller applies fix_phidp_from_kdp to the grids it holds, and may feed
\* the result to a further pass.
FixCall ==
    /\ pc = "idle"
    /\ err = "none"
    /\ fix_calls < MaxFixCalls
    /\ LET res == FixPhidpFromKdp(phidp, kdp, r, gate_excluded)
       IN  /\ phidp' = res.phidp
           /\ kdp' = res.kdp
           /\ err' = res.err
    /\ phidp_in' = phidp
    /\ kdp_in' = kdp
    /\ fix_calls' = fix_calls + 1
    /\ UNCHANGED <<pc, fn, radar, gate_excluded, r, half_phi, unfphi_in, phidp_tmp, dp, zdr_calls>>

NextFix == FixCall

SpecFix == InitFix /\ [][NextFix]_vars

-----------------------------------------------------------------------------
(* Offset shift and unfolding shared by phidp_giangrande and phidp_bringi *)

PhiBases == {-120, -10, 60}

PhiSteps == {10, 150}

PhiRow(base, step) == [g \in Gates |-> base + (g - 1) * step]

Folds == {0, 1}

NyquistVel == 90

GridVals(grid) == {grid[i][g] : i \in 1..Len(grid), g \in 1..NumGates(grid)}

GridMax(grid) == CHOOSE m \in GridVals(grid) : \A v \in GridVals(grid) : v <= m

GridMin(grid) == CHOOSE m \in GridVals(grid) : \A v \in GridVals(grid) : m <= v

\* phi.max() - phi.min() <= 200
IsHalfPhi(phi) == GridMax(phi) - GridMin(phi) <= HalfSpan

SumSeq(s) == IF Len(s) = 0 THEN 0 ELSE CumSum(s)[Len(s)]

\* Variant: the mean is taken over every gate, excluded ones too
NanMeanNegativeAll(grid, excl) ==
    LET rowsum == [i \in 1..Len(grid) |-> SumSeq(grid[i])]
        count  == Len(grid) * NumGates(grid)
    IN  count # 0 /\ SumSeq(rowsum) < 0

\* np.nanmean(grid[gatefilter.gate_included]) < 0.  The selection is the flat
\* array of the included gates of the whole sweep; the mean of an empty
\* selection is nan, and nan < 0 is False.
NanMeanNegative(grid, excl) ==
    LET rowsum == [i \in 1..Len(grid) |->
                      SumSeq([g \in 1..Len(grid[i]) |-> IF excl[i][g] THEN 0 ELSE grid[i][g]])]
        count  == Cardinality({<<i, g>> \in (1..Len(grid)) \X (1..NumGates(grid)) : ~excl[i][g]})
    IN  count # 0 /\ SumSeq(rowsum) < 0

\* Variant: excluded gates are zeroed before the shift and the doubling
UnfoldGateZeroFirst(u, shift, half, excluded) ==
    LET u0 == IF excluded THEN 0 ELSE u
        u1 == IF shift THEN u0 + OffsetShift ELSE u0
    IN  IF half THEN u1 * 2 ELSE u1

\* One gate of: unfphi += 90 (if shifted); unfphi *= 2 (if half_phi);
\* unfphi[vflag == -3] = 0
UnfoldGate(u, shift, half, excluded) ==
    LET u1 == IF shift THEN u + OffsetShift ELSE u
        u2 == IF half THEN u1 * 2 ELSE u1
    IN  IF excluded THEN 0 ELSE u2

\* result of the external solvers (phase_proc_lp, calc_kdp_bringi): any grids
SolverKdp(s) == [ray \in Rays |-> KdpRow(s + ray, NGates)]

SolverPhidp(s) == PhidpGrid(3 * (s % 2))

InitPhase ==
    \E bs \in [Rays -> PhiBases], ms \in [Rays -> MaskPats], step \in PhiSteps, u \in Folds :
        /\ radar = [PHIDP     |-> [ray \in Rays |-> PhiRow(bs[ray], step)],
                    PHI_UNF   |-> [ray \in Rays |->
                                     [g \in Gates |-> PhiRow(bs[ray], step)[g]
                                                        + 2 * NyquistVel * u * (ray % 2)]],
                    ZDR_CORR  |-> NoGrid,
                    PHIDP_VAL |-> NoGrid]
        /\ gate_excluded = [ray \in Rays |-> MaskRow(ms[ray], NGates)]
        /\ r = RangeVec("uniform")
        /\ pc = "idle"
        /\ fn = "none"
        /\ err = "none"
        /\ half_phi = FALSE
        /\ unfphi_in = NoGrid
        /\ phidp_tmp = NoGrid
        /\ dp = NoGrid
        /\ phidp = NoGrid
        /\ kdp = NoGrid
        /\ phidp_in = NoGrid
        /\ kdp_in = NoGrid
        /\ fix_calls = 0
        /\ zdr_calls = <<>>

\* phidp_giangrande, lines 148-174: dealiasing (external: each ray comes back
\* moved by a multiple of the Nyquist interval), range detection, offset
\* shift, doubling, zeroing, PHIDP_TMP added to the radar.
GG_Unfold ==
    /\ pc = "idle"
    /\ \E fold \in Folds :
        LET unf   == [ray \in Rays |->
                        [g \in Gates |-> radar.PHIDP[ray][g]
                                           + 2 * NyquistVel * ((fold + ray) % 2)]]
            half  == IsHalfPhi(radar.PHIDP)
            shift == NanMeanNegative(radar.PHIDP, gate_excluded)
        IN  /\ unfphi_in' = unf
            /\ half_phi' = half
            /\ phidp_tmp' = [ray \in Rays |-> [g \in Gates |->
                                UnfoldGate(unf[ray][g], shift, half, gate_excluded[ray][g])]]
    /\ fn' = "giangrande"
    /\ pc' = "gg_lp"
    /\ UNCHANGED <<err, radar, gate_excluded, r, dp, phidp, kdp, phidp_in, kdp_in,
                   fix_calls, zdr_calls>>

\* phidp_giangrande, lines 176-186: the LP solver returns phidp_gg and kdp_gg.
GG_PhaseProc ==
    /\ pc = "gg_lp"
    /\ \E s \in KdpStarts :
        /\ kdp' = SolverKdp(s)
        /\ phidp' = SolverPhidp(s)
    /\ pc' = "gg_halve"
    /\ UNCHANGED <<fn, err, radar, gate_excluded, r, half_phi, unfphi_in, phidp_tmp, dp,
                   phidp_in, kdp_in, fix_calls, zdr_calls>>

\* phidp_giangrande, lines 188-191.  unfphi is the array unfphidict['data'];
\* indexing it with the string 'data' raises IndexError before anything is
\* halved.
GG_Halve ==
    /\ pc = "gg_halve"
    /\ IF half_phi
       THEN pc' = "raised" /\ err' = "IndexError"
       ELSE pc' = "gg_fix" /\ err' = err
    /\ UNCHANGED <<fn, radar, gate_excluded, r, half_phi, unfphi_in, phidp_tmp, dp,
                   phidp, kdp, phidp_in, kdp_in, fix_calls, zdr_calls>>

\* phidp_giangrande, lines 193-203.
GG_Fix ==
    /\ pc = "gg_fix"
    /\ LET res == FixPhidpFromKdp(phidp, kdp, r, gate_excluded)
       IN  /\ phidp' = res.phidp
           /\ kdp' = res.kdp
           /\ err' = res.err
           /\ pc' = IF res.err = "none" THEN "done" ELSE "raised"
    /\ phidp_in' = phidp
    /\ kdp_in' = kdp
    /\ fix_calls' = fix_calls + 1
    /\ UNCHANGED <<fn, radar, gate_excluded, r, half_phi, unfphi_in, phidp_tmp, dp, zdr_calls>>

\* phidp_bringi: offset shift of dp, then the external Bringi estimator.
Bringi ==
    /\ pc = "idle"
    /\ LET shift == NanMeanNegative(radar.PHI_UNF, gate_excluded)
       IN  dp' = [ray \in Rays |-> [g \in Gates |->
                    IF shift THEN radar.PHI_UNF[ray][g] + OffsetShift
                             ELSE radar.PHI_UNF[ray][g]]]
    /\ \E s \in KdpStarts :
        /\ kdp' = SolverKdp(s)
        /\ phidp' = SolverPhidp(s)
    /\ fn' = "bringi"
    /\ pc' = "done"
    /\ UNCHANGED <<err, radar, gate_excluded, r, half_phi, unfphi_in, phidp_tmp,
                   phidp_in, kdp_in, fix_calls, zdr_calls>>

\* valentin_phase_processing: its first statement (line 256) reads the name
\* phi, which is bound neither in the function nor in the module.
Valentin ==
    /\ pc = "idle"
    /\ fn' = "valentin"
    /\ pc' = "raised"
    /\ err' = "NameError"
    /\ UNCHANGED <<radar, gate_excluded, r, half_phi, unfphi_in, phidp_tmp, dp,
                   phidp, kdp, phidp_in, kdp_in, fix_calls, zdr_calls>>

NextPhase == GG_Unfold \/ GG_PhaseProc \/ GG_Halve \/ GG_Fix \/ Bringi \/ Valentin

SpecPhase == InitPhase /\ [][NextPhase]_vars

-----------------------------------------------------------------------------
(* correct_attenuation_zdr *)

ZdrBases == {-1500, 2000}

Alphas == {0, 16, 20}

\* zdr + 0.016 * phi, in thousandths of a dB
CorrectedZdr(zdr, phi, alpha) ==
    [ray \in 1..Len(zdr) |-> [g \in 1..Len(zdr[ray]) |-> zdr[ray][g] + HardAlpha * phi[ray][g]]]

InitZdr ==
    \E bs \in [Rays -> PhiBases], zb \in ZdrBases :
        /\ radar = [PHIDP     |-> NoGrid,
                    PHI_UNF   |-> NoGrid,
                    ZDR_CORR  |-> [ray \in Rays |-> [g \in Gates |-> zb + 100 * (ray + g)]],
                    PHIDP_VAL |-> [ray \in Rays |-> PhiRow(bs[ray], 10)]]
        /\ gate_excluded = NoGrid
        /\ r = RangeVec("uniform")
        /\ pc = "idle"
        /\ fn = "none"
        /\ err = "none"
        /\ half_phi = FALSE
        /\ unfphi_in = NoGrid
        /\ phidp_tmp = NoGrid
        /\ dp = NoGrid
        /\ phidp = NoGrid
        /\ kdp = NoGrid
        /\ phidp_in = NoGrid
        /\ kdp_in = NoGrid
        /\ fix_calls = 0
        /\ zdr_calls = <<>>

\* A call correct_attenuation_zdr(radar, alpha=a); a = 16 is the call that
\* leaves the default.
CorrectAttenuationZdr ==
    /\ Len(zdr_calls) < MaxZdrCalls
    /\ \E a \in Alphas :
        zdr_calls' = Append(zdr_calls,
                            [alpha |-> a,
                             data  |-> CorrectedZdr(radar.ZDR_CORR, radar.PHIDP_VAL, a)])
    /\ UNCHANGED <<pc, fn, err, radar, gate_excluded, r, half_phi, unfphi_in, phidp_tmp, dp,
                   phidp, kdp, phidp_in, kdp_in, fix_calls>>

NextZdr == CorrectAttenuationZdr

SpecZdr == InitZdr /\ [][NextZdr]_vars

-----------------------------------------------------------------------------
(* Properties of fix_phidp_from_kdp *)

FixReturned == fix_calls > 0 /\ err = "none"

InBand(k) == KdpMin <= k /\ k <= KdpMax

AllExcluded(ray) == \A g \in 1..Len(gate_excluded[ray]) : gate_excluded[ray][g]

RECURSIVE TrapSum(_, _, _)
\* twice the trapezoidal integral of y over x from gate 1 to gate m
TrapSum(y, x, m) ==
    IF m <= 1 THEN 0
    ELSE (x[m] - x[m - 1]) * (y[m] + y[m - 1]) + TrapSum(y, x, m - 1)

\* C1: the KDP grid returned by fix_phidp_from_kdp lies in [-4, 15]; an entry
\* that was outside the band on input is 0, and an in-band entry at a gate
\* that is not excluded is returned unchanged.
C1_KdpBand ==
    FixReturned =>
        \A ray \in Rays : \A g \in Gates :
            /\ InBand(kdp[ray][g])
            /\ ~InBand(kdp_in[ray][g]) => kdp[ray][g] = 0
            /\ (InBand(kdp_in[ray][g]) /\ ~gate_excluded[ray][g]) => kdp[ray][g] = kdp_in[ray][g]

C1_Witness ==
    /\ fix_calls = 1 /\ err = "none"
    /\ \E ray \in Rays : \E g \in Gates : kdp_in[ray][g] > KdpMax /\ kdp[ray][g] = 0
    /\ \E ray \in Rays : \E g \in Gates : kdp_in[ray][g] < KdpMin /\ kdp[ray][g] = 0
    /\ \E ray \in Rays : \E g \in Gates :
            kdp_in[ray][g] = KdpMax /\ ~gate_excluded[ray][g] /\ kdp[ray][g] = KdpMax
    /\ \E ray \in Rays : \E g \in Gates :
            kdp_in[ray][g] = KdpMin /\ ~gate_excluded[ray][g] /\ kdp[ray][g] = KdpMin

\* C3: for a ray whose gates are all excluded, the whole row of both returned
\* grids is zero, the final range gate included.
C3_MaskedRayRowZero ==
    FixReturned =>
        \A ray \in Rays :
            AllExcluded(ray) =>
                \A g \in Gates : kdp[ray][g] = 0 /\ phidp[ray][g][1] = 0

\* C7: when the shapes disagree the call aborts with an error and the
\* caller's PHIDP and KDP grids are as they were before the call.
C7_NoPartialProduct ==
    (fix_calls > 0 /\ (~SameShape(gate_excluded, kdp_in) \/ Len(r) # NumGates(kdp_in))) =>
        /\ err # "none"
        /\ kdp = kdp_in
        /\ phidp = phidp_in

GridRatEq(a, b) ==
    /\ SameShape(a, b)
    /\ \A i \in 1..Len(a) : \A g \in 1..Len(a[i]) : RatEq(a[i][g], b[i][g])

\* C8: applying fix_phidp_from_kdp to its own output returns the same KDP grid
\* and the same PHIDP grid.
C8_Idempotent ==
    (fix_calls >= 2 /\ err = "none") =>
        /\ kdp = kdp_in
        /\ GridRatEq(phidp, phidp_in)

C8_Witness ==
    /\ fix_calls = 2 /\ err = "none"
    /\ \E ray \in Rays : \E g \in Gates : g < NGates /\ phidp[ray][g][1] # 0
    /\ \E ray \in Rays : \E g \in Gates : kdp[ray][g] # 0

\* C10: in the returned PHIDP grid gate j (not the final gate) holds the
\* cumulative trapezoidal integral of the cleaned KDP from gate 0 to gate j+1
\* divided by the number of gates; the final gate holds its input value; the
\* shape is the input's shape.
C10_Reconciled ==
    FixReturned =>
        /\ SameShape(phidp, phidp_in)
        /\ \A ray \in Rays :
            /\ RatEq(phidp[ray][NGates], phidp_in[ray][NGates])
            /\ \A g \in 1..(NGates - 1) :
                  RatEq(phidp[ray][g], <<TrapSum(kdp[ray], r, g + 1), 2 * Len(kdp[ray])>>)

C10_Witness ==
    /\ fix_calls = 1 /\ err = "none"
    /\ \E ray \in Rays :
          /\ phidp[ray][1][1] # 0
          /\ ~RatEq(phidp[ray][NGates - 1], phidp[ray][1])
          /\ phidp[ray][NGates][1] # 0
          /\ ~RatEq(phidp[ray][NGates], phidp[ray][NGates - 1])
          /\ r[2] - r[1] # r[NGates] - r[NGates - 1]

-----------------------------------------------------------------------------
(* Properties of phidp_giangrande, phidp_bringi, valentin_phase_processing *)

AfterUnfold == fn = "giangrande" /\ pc # "idle"

RECURSIVE IncludedSum(_, _)
\* sum of grid over the included gates listed in the set todo of <<ray, gate>>
IncludedSum(grid, todo) ==
    IF todo = {} THEN 0
    ELSE LET c == CHOOSE c \in todo : TRUE
         IN  grid[c[1]][c[2]] + IncludedSum(grid, todo \ {c})

\* included gates; a ray without included gates contributes none
IncludedGates == {c \in Rays \X Gates : ~gate_excluded[c[1]][c[2]]}

\* the 90 shift decided from the included gates alone, for the whole sweep
SweepShift(grid) ==
    IF IncludedGates # {} /\ IncludedSum(grid, IncludedGates) < 0 THEN OffsetShift ELSE 0

\* C2: after the unfolding step of phidp_giangrande (PHIDP_TMP) and after the
\* clamp of fix_phidp_from_kdp (returned KDP), every excluded gate holds 0.
C2_ExcludedZero ==
    /\ AfterUnfold =>
          \A ray \in Rays : \A g \in Gates : gate_excluded[ray][g] => phidp_tmp[ray][g] = 0
    /\ FixReturned =>
          \A ray \in Rays : \A g \in Gates : gate_excluded[ray][g] => kdp[ray][g] = 0

C2_Witness ==
    /\ fn = "giangrande" /\ pc = "done"
    /\ NanMeanNegative(radar.PHIDP, gate_excluded)
    /\ \E ray \in Rays : \E g \in Gates :
          /\ gate_excluded[ray][g]
          /\ unfphi_in[ray][g] # 0
          /\ unfphi_in[ray][g] + OffsetShift # 0
          /\ kdp_in[ray][g] # 0
          /\ InBand(kdp_in[ray][g])

\* C4: in half-range mode phidp_giangrande doubles the unwrapped phase, halves
\* the outputs at the end and returns without raising; in full-range mode
\* neither is applied.
C4_HalfRangeRoundTrip ==
    /\ AfterUnfold =>
          \A ray \in Rays : \A g \in Gates :
              ~gate_excluded[ray][g] =>
                  phidp_tmp[ray][g] = (IF half_phi THEN 2 ELSE 1)
                                        * (unfphi_in[ray][g] + SweepShift(radar.PHIDP))
    /\ fn = "giangrande" => pc # "raised"

\* C6 as stated: a ray without included gates is left unshifted by the offset
\* step (phidp_bringi keeps the shifted dp as it is).
C6_DegenerateRayNotShifted ==
    (fn = "bringi" /\ pc = "done") =>
        \A ray \in Rays : AllExcluded(ray) => dp[ray] = radar.PHI_UNF[ray]

\* C6 amended: the offset step never raises; the shift is one decision for
\* the whole sweep, taken from the included gates alone (none when there is
\* no included gate), and it is applied to every ray, a ray without included
\* gates too.
C6_SweepWideShift ==
    /\ fn = "bringi" =>
          /\ pc = "done"
          /\ \A ray \in Rays : \A g \in Gates :
                dp[ray][g] = radar.PHI_UNF[ray][g] + SweepShift(radar.PHI_UNF)
    /\ AfterUnfold =>
          \A ray \in Rays : \A g \in Gates :
              ~gate_excluded[ray][g] =>
                  phidp_tmp[ray][g] = (IF half_phi THEN 2 ELSE 1)
                                        * (unfphi_in[ray][g] + SweepShift(radar.PHIDP))

C6_Witness ==
    /\ fn = "bringi" /\ pc = "done"
    /\ \E ray \in Rays :
          /\ AllExcluded(ray)
          /\ SumSeq(radar.PHI_UNF[ray]) > 0
          /\ dp[ray] # radar.PHI_UNF[ray]
    /\ \E ray \in Rays : ~AllExcluded(ray)
    /\ SumSeq([ray \in Rays |-> SumSeq(radar.PHI_UNF[ray])]) >= 0

\* C9: valentin_phase_processing completes on any sweep and returns a PHIDP
\* that is non-decreasing in range on every ray, 0 at gates closer than 5 km.
C9_ValentinMonotone ==
    fn = "valentin" =>
        /\ pc = "done"
        /\ \A ray \in Rays : \A g \in Gates :
              /\ g < NGates => phidp[ray][g] <= phidp[ray][g + 1]
              /\ r[g] < 5000 => phidp[ray][g] = 0

-----------------------------------------------------------------------------
(* Properties of correct_attenuation_zdr *)

\* C5: each call returns ZDR + alpha * PHIDP with the caller's alpha, and two
\* calls differ by (alpha1 - alpha2) * PHIDP.
C5_ZdrUsesAlpha ==
    /\ \A k \in 1..Len(zdr_calls) : \A ray \in Rays : \A g \in Gates :
          zdr_calls[k].data[ray][g]
              = radar.ZDR_CORR[ray][g] + zdr_calls[k].alpha * radar.PHIDP_VAL[ray][g]
    /\ \A k \in 1..Len(zdr_calls) : \A m \in 1..Len(zdr_calls) : \A ray \in Rays : \A g \in Gates :
          zdr_calls[k].data[ray][g] - zdr_calls[m].data[ray][g]
              = (zdr_calls[k].alpha - zdr_calls[m].alpha) * radar.PHIDP_VAL[ray][g]

====
